---- MODULE Spec2Model ----
(***************************************************************************)
(* Thought Tracker (src/main.py): the Streamlit script that appends        *)
(* mood-tagged thoughts to thought.csv and, on every script run, walks the *)
(* months present in that file, computes the monthly statistics and keeps  *)
(* the AI summaries of past months in reports.csv.                         *)
(*                                                                         *)
(* A text is a sequence of tokens (characters, or one opaque word).  A     *)
(* date is written as the sequence <<day, month, year>> ("%d/%m/%Y").      *)
(* One action is one script run: Streamlit executes the file top to        *)
(* bottom, single-threaded, for every interaction.  The History tab only   *)
(* displays thought.csv and is left out; the day of a date is kept in the  *)
(* written form but only month and year are read back by the report tab.   *)
(***************************************************************************)
EXTENDS Integers, Sequences, FiniteSets

(* ---------------------------------------------------------------- bounds *)
\* Rows thought.csv may hold in the model.
MaxEntries == 3
\* Months the clock may advance from StartClock.
MaxTicks == 2

\* The clock at the first script run; late in a year, so the year rolls over.
StartClock == [day |-> 28, month |-> 11, year |-> 2025]

(* ----------------------------------------------------------------- texts *)
WS == {" ", "\n"}

\* What the user may type in the text area.
Texts == { <<>>, <<" ">>, <<" ", "\n">>, <<"a">>, <<"N", "A">> }

\* What the summarizer may answer.
Summaries == { <<"s", "1">>, <<"s", "2">> }

\* Tokens pandas.read_csv turns into a missing value (default na_values).
NAStrings == { <<>>, <<"N", "A">> }
NaN == <<"float('nan')">>

NoThoughts == <<"No thoughts recorded.">>
GenerationFailed == <<"AI summary generation failed.">>
NotAvailable == "N/A"

\* ["Happy", "Sad", "Angry"], the radio's options.
Emotions == <<"Happy", "Sad", "Angry">>
EmotionSet == {Emotions[i] : i \in 1..Len(Emotions)}

RECURSIVE lstrip(_)
lstrip(s) == IF s # <<>> /\ Head(s) \in WS THEN lstrip(Tail(s)) ELSE s

RECURSIVE rstrip(_)
rstrip(s) ==
    IF s # <<>> /\ s[Len(s)] \in WS THEN rstrip(SubSeq(s, 1, Len(s) - 1)) ELSE s

\* str.strip()
strip(s) == rstrip(lstrip(s))

\* One cell of a CSV file as pandas.read_csv returns it.
read_cell(s) == IF s \in NAStrings THEN NaN ELSE s

\* One cell as DataFrame.to_csv writes it: a missing value is written empty.
write_cell(s) == IF s = NaN THEN <<>> ELSE s

\* datetime.now().strftime("%d/%m/%Y")
strftime(t) == <<t.day, t.month, t.year>>

\* pd.to_datetime(..., format="%d/%m/%Y")
to_datetime(s) == [day |-> s[1], month |-> s[2], year |-> s[3]]

(* ------------------------------------------------------------- sequences *)
Range(s) == {s[i] : i \in 1..Len(s)}

\* DataFrame.drop_duplicates(): the first occurrence of each row, in order.
RECURSIVE drop_duplicates(_)
drop_duplicates(s) ==
    IF s = <<>> THEN <<>>
    ELSE LET init == drop_duplicates(SubSeq(s, 1, Len(s) - 1))
             x == s[Len(s)]
         IN IF x \in Range(init) THEN init ELSE Append(init, x)

\* The key order of sort_values(["year", "month"], ascending=[False, False]).
later(p, q) == p.year > q.year \/ (p.year = q.year /\ p.month > q.month)

RECURSIVE sort_values(_)
sort_values(s) ==
    IF s = <<>> THEN <<>>
    ELSE LET i == CHOOSE i \in 1..Len(s) :
                      \A j \in 1..Len(s) : j = i \/ ~later(s[j], s[i])
         IN <<s[i]>> \o sort_values(SubSeq(s, 1, i - 1) \o SubSeq(s, i + 1, Len(s)))

(* ----------------------------------------------------------------- state *)
VARIABLES
    now,          \* the wall clock (datetime.now())
    thought_csv,  \* THOUGHTS_FILE: its rows, <<>> while the file does not exist
    reports_csv,  \* REPORTS_FILE: [exists, rows]
    pc,           \* where the script run stands: "thoughts_tab" between runs,
                  \* "report_tab" after a rejected submit
    last          \* what the latest script run did (read by the properties only)

vars == <<now, thought_csv, reports_csv, pc, last>>

(* ------------------------------------------------------------ data layer *)
\* load_thoughts_data(): the rows of thought.csv as read_csv returns them, no
\* rows when the file is missing.
load_thoughts_data(file) ==
    [i \in 1..Len(file) |->
        [date |-> file[i].date, emotion |-> file[i].emotion,
         thought |-> read_cell(file[i].thought)]]

\* df_thoughts after the date column is parsed and month and year are derived.
prepare(df) ==
    [i \in 1..Len(df) |->
        LET d == to_datetime(df[i].date)
        IN [date |-> d, emotion |-> df[i].emotion, thought |-> df[i].thought,
            month |-> d.month, year |-> d.year]]

\* pd.read_csv(REPORTS_FILE), or the empty frame when the file is missing.
load_reports(file) ==
    IF file.exists
    THEN [i \in 1..Len(file.rows) |->
            [file.rows[i] EXCEPT !.ai_summary = read_cell(@)]]
    ELSE <<>>

\* reports_df.to_csv(REPORTS_FILE, index=False)
to_csv(df) ==
    [exists |-> TRUE,
     rows |-> [i \in 1..Len(df) |-> [df[i] EXCEPT !.ai_summary = write_cell(@)]]]

unique_periods(df) ==
    sort_values(drop_duplicates(
        [i \in 1..Len(df) |-> [month |-> df[i].month, year |-> df[i].year]]))

current_month_data(df, p) ==
    SelectSeq(df, LAMBDA r : r.date.year = p.year /\ r.date.month = p.month)

(* ------------------------------------------------------------ statistics *)
\* Series.value_counts(): label -> count, for the labels that occur.
value_counts(col) ==
    [e \in Range(col) |-> Cardinality({i \in 1..Len(col) : col[i] = e})]

\* emotion_counts.get(e, 0)
get(vc, e) == IF e \in DOMAIN vc THEN vc[e] ELSE 0

\* Mutant of idxmax: the labels holding the minimum (idxmin for idxmax).
idxmin(vc) == {e \in DOMAIN vc : \A f \in DOMAIN vc : vc[e] <= vc[f]}

\* emotion_counts.idxmax(): the first label holding the maximum in the order
\* value_counts left the labels in.  That order sorts by count; the order of
\* labels with equal counts is whatever the sort of the installed numpy
\* leaves, so any label holding the maximum may come first.
idxmax(vc) == {e \in DOMAIN vc : \A f \in DOMAIN vc : vc[f] <= vc[e]}

most_freq_emotion(vc) == IF DOMAIN vc # {} THEN idxmax(vc) ELSE {NotAvailable}

(* -------------------------------------------------------- report pipeline *)
\* Mutant of is_current_month: the month compared with the day of the clock.
is_current_month_day(p, current_time) ==
    p.month = current_time.day /\ p.year = current_time.year

is_current_month(p, current_time) ==
    p.month = current_time.month /\ p.year = current_time.year

\* Mutant of existing_report: the month and year columns swapped in the lookup.
existing_report_swapped(reports_df, p) ==
    SelectSeq(reports_df, LAMBDA r : r.month = p.year /\ r.year = p.month)

existing_report(reports_df, p) ==
    SelectSeq(reports_df, LAMBDA r : r.month = p.month /\ r.year = p.year)

\* Mutant of use_cached: the test of the current month inverted.
use_cached_current_only(is_current, existing) == is_current /\ existing # <<>>

\* The cached branch: a past month with a report in reports_df.
use_cached(is_current, existing) == ~is_current /\ existing # <<>>

\* "\n".join(current_month_data["thought"].tolist())
RECURSIVE join(_)
join(ts) ==
    IF ts = <<>> THEN <<>>
    ELSE IF Len(ts) = 1 THEN ts[1]
    ELSE ts[1] \o <<"\n">> \o join(Tail(ts))

\* join raises TypeError on a missing value (a float), which the handler of the
\* whole report tab catches.
join_raises(ts) == \E i \in 1..Len(ts) : ts[i] = NaN

\* What chat_completion may leave in summary_text: a summary, or the failure
\* marker of the except branch.
chat_completion == Summaries \cup {GenerationFailed}

\* Mutant of cache_it: the current month is cached like any other.
cache_it_any_month(is_current, summary_text) == summary_text # GenerationFailed

\* The condition under which the report is appended to reports_df.
cache_it(is_current, summary_text) ==
    ~is_current /\ summary_text # GenerationFailed

new_report(p, total_thoughts, most, vc, summary_text) ==
    [month |-> p.month, year |-> p.year, total_thoughts |-> total_thoughts,
     most_frequent_emotion |-> most,
     happy_count |-> get(vc, "Happy"), sad_count |-> get(vc, "Sad"),
     angry_count |-> get(vc, "Angry"), ai_summary |-> summary_text]

\* The run's working state: reports_df in memory, whether an exception reached
\* the handler of the report tab, and what was shown for each period.
start(reports_df) == [reports_df |-> reports_df, raised |-> FALSE, shown |-> <<>>]

shown_period(p, branch, most, total, summary) ==
    [month |-> p.month, year |-> p.year, branch |-> branch, most |-> most,
     total |-> total, summary |-> summary]

\* One pass of the loop over unique_periods, for period p: the working states
\* it may end in (the summarizer's answer and the order of tied counts are the
\* environment's choice).
process_period(st, p, df_thoughts, current_time) ==
    LET data == current_month_data(df_thoughts, p)
        vc == value_counts([i \in 1..Len(data) |-> data[i].emotion])
        total_thoughts == Len(data)
        is_current == is_current_month(p, current_time)
        existing == existing_report(st.reports_df, p)
        thoughts == [i \in 1..Len(data) |-> data[i].thought]
    IN  IF use_cached(is_current, existing)
        THEN {[st EXCEPT !.shown = Append(@, shown_period(p, "cached", most,
                                    total_thoughts, existing[1].ai_summary))] :
                most \in most_freq_emotion(vc)}
        ELSE IF join_raises(thoughts)
        THEN {[st EXCEPT !.raised = TRUE,
                         !.shown = Append(@, shown_period(p, "raised", most,
                                    total_thoughts, <<>>))] :
                most \in most_freq_emotion(vc)}
        ELSE LET answers == IF strip(join(thoughts)) = <<>>
                            THEN {NoThoughts} ELSE chat_completion
             IN {[st EXCEPT
                    !.reports_df =
                        IF cache_it(is_current, summary_text)
                        THEN Append(@, new_report(p, total_thoughts, most, vc,
                                                  summary_text))
                        ELSE @,
                    !.shown = Append(@, shown_period(p,
                        IF summary_text = GenerationFailed THEN "failed"
                        ELSE IF summary_text = NoThoughts THEN "empty"
                        ELSE "generated",
                        most, total_thoughts, summary_text))] :
                  most \in most_freq_emotion(vc), summary_text \in answers}

\* The loop over the first n periods of ps; an exception ends it.
RECURSIVE for_each_period(_, _, _, _, _)
for_each_period(st, ps, n, df_thoughts, current_time) ==
    IF n = 0 \/ ps = <<>> \/ st.raised THEN {st}
    ELSE UNION {for_each_period(st2, Tail(ps), n - 1, df_thoughts, current_time) :
                    st2 \in process_period(st, Head(ps), df_thoughts, current_time)}

\* Mutant of interrupted_file: reports_df is written as the loop goes.
interrupted_file_saved(file, st) == to_csv(st.reports_df)

\* What a run that is cut short leaves in REPORTS_FILE: the only write of the
\* loop's results is the one after the loop.
interrupted_file(file, st) == file

\* Whether two runs got the same answer wherever both asked the summarizer
\* about the same period.
same_answers(a, b) ==
    \A i \in 1..Len(a), j \in 1..Len(b) :
        (/\ a[i].month = b[j].month /\ a[i].year = b[j].year
         /\ a[i].branch \in {"generated", "failed"}
         /\ b[j].branch \in {"generated", "failed"})
        => a[i].summary = b[j].summary

\* The record of a script run: how it ended, the clock it read, REPORTS_FILE
\* as it found it, reports_df as it left it, what it showed, and whether it
\* repeats the run before it (same thoughts, same month, same answers, with
\* that run having reached the end of the report tab).
run_record(outcome, current_time, st) ==
    [outcome |-> outcome, current_time |-> current_time,
     before |-> reports_csv, reports_df |-> st.reports_df, shown |-> st.shown,
     repeat |-> /\ outcome \in {"saved", "stopped", "raised"}
                /\ last.outcome \in {"saved", "stopped", "raised"}
                /\ last.current_time.month = current_time.month
                /\ last.current_time.year = current_time.year
                /\ same_answers(last.shown, st.shown)]

\* The report tab of one script run that runs to its end.
report_tab ==
    LET df_thoughts == prepare(load_thoughts_data(thought_csv))
        current_time == now
        reports_df == load_reports(reports_csv)
        ps == unique_periods(df_thoughts)
    IN  IF ps = <<>>
        THEN /\ reports_csv' = to_csv(reports_df)
             /\ last' = run_record("stopped", current_time, start(reports_df))
        ELSE \E st \in for_each_period(start(reports_df), ps, Len(ps),
                                       df_thoughts, current_time) :
                /\ reports_csv' = IF st.raised THEN reports_csv
                                  ELSE to_csv(st.reports_df)
                /\ last' = run_record(IF st.raised THEN "raised" ELSE "saved",
                                      current_time, st)

(* --------------------------------------------------------------- actions *)
Init ==
    /\ now = StartClock
    /\ thought_csv = <<>>
    /\ reports_csv = [exists |-> FALSE, rows |-> <<>>]
    /\ pc = "thoughts_tab"
    /\ last = [outcome |-> "none", current_time |-> StartClock,
               before |-> [exists |-> FALSE, rows |-> <<>>],
               reports_df |-> <<>>, shown |-> <<>>, repeat |-> FALSE]

\* The calendar moves on by a month.
Tick ==
    /\ (now.year - StartClock.year) * 12 + now.month - StartClock.month < MaxTicks
    /\ now' = IF now.month = 12
              THEN [now EXCEPT !.month = 1, !.year = @ + 1]
              ELSE [now EXCEPT !.month = @ + 1]
    /\ UNCHANGED <<thought_csv, reports_csv, pc, last>>

\* Mutant of accepted: the text tested without strip().
accepted_unstripped(thought_input) == thought_input # <<>>

\* The text the Submit button accepts.
accepted(thought_input) == strip(thought_input) # <<>>

\* pd.concat([df_existing, new_entry_df]).to_csv(THOUGHTS_FILE): the rows as
\* load_thoughts_data read them, and the new one.
append_thought(file, entry) ==
    LET df_existing == load_thoughts_data(file)
    IN Append([i \in 1..Len(df_existing) |->
                  [df_existing[i] EXCEPT !.thought = write_cell(@)]],
              entry)

\* The thoughts tab of a script run with "Submit Thought" pressed.  An accepted
\* thought is written and st.rerun() ends the run there; a rejected one shows
\* the error and the run goes on to the report tab.
Submit(emotion, thought_input) ==
    /\ pc = "thoughts_tab"
    /\ IF accepted(thought_input)
       THEN /\ Len(thought_csv) < MaxEntries
            /\ thought_csv' = append_thought(thought_csv,
                    [date |-> strftime(now), emotion |-> emotion,
                     thought |-> thought_input])
            /\ pc' = "thoughts_tab"
            /\ last' = run_record("rerun", now, start(<<>>))
       ELSE /\ thought_csv' = thought_csv
            /\ pc' = "report_tab"
            /\ last' = run_record("rejected", now, start(<<>>))
    /\ UNCHANGED <<now, reports_csv>>

\* The report tab of a script run that reaches its end: of a run without the
\* button pressed (page load, a widget change, the rerun after a submit), or
\* of the run that rejected a submit.
Render ==
    /\ report_tab
    /\ pc' = "thoughts_tab"
    /\ UNCHANGED <<now, thought_csv>>

\* A script run that is stopped inside the loop of the report tab, after n
\* periods (the user interacts again, or the process ends).
Interrupted ==
    LET df_thoughts == prepare(load_thoughts_data(thought_csv))
        reports_df == load_reports(reports_csv)
        ps == unique_periods(df_thoughts)
    IN  /\ \E n \in 0..(Len(ps) - 1) :
            \E st \in for_each_period(start(reports_df), ps, n, df_thoughts, now) :
                /\ ~st.raised
                /\ reports_csv' = interrupted_file(reports_csv, st)
                /\ last' = run_record("interrupted", now, st)
        /\ pc' = "thoughts_tab"
        /\ UNCHANGED <<now, thought_csv>>

Next ==
    \/ Tick
    \/ \E emotion \in EmotionSet, thought_input \in Texts : Submit(emotion, thought_input)
    \/ Render
    \/ Interrupted

Spec == Init /\ [][Next]_vars

(* ------------------------------------------------------------ properties *)
RowsFor(file, m, y) == SelectSeq(file.rows, LAMBDA r : r.month = m /\ r.year = y)

\* The rows of thought.csv dated in month m of year y, and those of emotion e.
EntriesIn(m, y) ==
    {i \in 1..Len(thought_csv) :
        thought_csv[i].date[2] = m /\ thought_csv[i].date[3] = y}

CountIn(m, y, e) == Cardinality({i \in EntriesIn(m, y) : thought_csv[i].emotion = e})

Blank(t) == \A i \in 1..Len(t) : t[i] \in WS

\* The latest run's current month.
RunMonth(m, y) == m = last.current_time.month /\ y = last.current_time.year

\* C1: REPORTS_FILE never holds a report of the month that is current, nor of
\* the month that was current for the run that wrote the file, however many
\* runs happen in that month and whatever the summarizer answers.
C1_CurrentPeriodNeverCached ==
    \A i \in 1..Len(reports_csv.rows) :
        LET r == reports_csv.rows[i]
        IN /\ ~(r.month = now.month /\ r.year = now.year)
           /\ last.outcome \in {"saved", "stopped"} => ~RunMonth(r.month, r.year)

\* A second run in the same month saved the file, having generated a summary
\* for the current month, with a past month in the file.
C1_Witness ==
    /\ last.outcome = "saved"
    /\ last.repeat
    /\ reports_csv.rows # <<>>
    /\ last.current_time = now
    /\ \E k \in 1..Len(last.shown) :
          /\ RunMonth(last.shown[k].month, last.shown[k].year)
          /\ last.shown[k].branch = "generated"

\* C2: a run in which the summarizer fails for an uncached past month ends
\* with no report of that month in REPORTS_FILE, and when the next run gets an
\* answer for that month it ends with a report of that month in the file.
C2_FailureRetriedThenCached ==
    [][\A k \in 1..Len(last'.shown) :
          LET s == last'.shown[k]
              past == ~(s.month = last'.current_time.month
                        /\ s.year = last'.current_time.year)
          IN (last'.outcome \in {"saved", "raised"} /\ past) =>
                /\ s.branch = "failed" => RowsFor(reports_csv', s.month, s.year) = <<>>
                /\ (/\ s.branch = "generated"
                    /\ last.outcome \in {"saved", "raised"}
                    /\ \E j \in 1..Len(last.shown) :
                          /\ last.shown[j].month = s.month
                          /\ last.shown[j].year = s.year
                          /\ last.shown[j].branch = "failed")
                   => RowsFor(reports_csv', s.month, s.year) # <<>>]_vars

C4_OneReportPerPeriod ==
    \A i, j \in 1..Len(reports_csv.rows) :
        (/\ reports_csv.rows[i].month = reports_csv.rows[j].month
         /\ reports_csv.rows[i].year = reports_csv.rows[j].year) => i = j

\* Two months are cached, the second added by a later run than the first,
\* after the year has turned.
C4_Witness ==
    /\ Len(reports_csv.rows) = 2
    /\ last.outcome = "saved"
    /\ Len(last.before.rows) = 1
    /\ now.year > StartClock.year

\* The first emotion, in the order Happy, Sad, Angry, among those with the most
\* thoughts in month m of year y.
FixedOrderDominant(m, y) ==
    LET best == {i \in 1..Len(Emotions) :
                    \A j \in 1..Len(Emotions) :
                        CountIn(m, y, Emotions[j]) <= CountIn(m, y, Emotions[i])}
    IN Emotions[CHOOSE i \in best : \A j \in best : i <= j]

\* C5 as stated: the dominant mood computed for a month is the first emotion,
\* in the order Happy, Sad, Angry, among those with the highest count.
C5_FixedOrderTieBreak ==
    \A k \in 1..Len(last.shown) :
        last.shown[k].most = FixedOrderDominant(last.shown[k].month, last.shown[k].year)

\* C5 as amended: the dominant mood computed for a month is an emotion with the
\* highest count of that month (on a tie, one of the tied emotions), and so is
\* the one stored in each cached report.
C5_DominantHasMaxCount ==
    /\ \A k \in 1..Len(last.shown) :
          LET s == last.shown[k]
          IN /\ s.most \in EmotionSet
             /\ \A e \in EmotionSet :
                   CountIn(s.month, s.year, e) <= CountIn(s.month, s.year, s.most)
    /\ \A i \in 1..Len(reports_csv.rows) :
          LET r == reports_csv.rows[i]
          IN /\ r.most_frequent_emotion \in EmotionSet
             /\ \A e \in EmotionSet :
                   CountIn(r.month, r.year, e)
                       <= CountIn(r.month, r.year, r.most_frequent_emotion)

\* A month with Happy and Sad tied at the top, for which Sad was computed.
C5_Witness ==
    \E k \in 1..Len(last.shown) :
        LET s == last.shown[k]
        IN /\ CountIn(s.month, s.year, "Happy") = CountIn(s.month, s.year, "Sad")
           /\ CountIn(s.month, s.year, "Happy") > CountIn(s.month, s.year, "Angry")
           /\ s.most = "Sad"

C7_FailureDoesNotAbortRun ==
    \A k, l \in 1..Len(last.shown) :
        LET f == last.shown[k]
            g == last.shown[l]
        IN (/\ last.outcome \in {"saved", "raised"}
            /\ f.branch = "failed"
            /\ g.branch = "generated"
            /\ ~RunMonth(g.month, g.year))
           => /\ \A i \in 1..Len(thought_csv) :
                    \E n \in 1..Len(last.shown) :
                        /\ last.shown[n].month = thought_csv[i].date[2]
                        /\ last.shown[n].year = thought_csv[i].date[3]
                        /\ last.shown[n].branch # "raised"
              /\ RowsFor(reports_csv, g.month, g.year) # <<>>
              /\ RowsFor(reports_csv, f.month, f.year) = <<>>

\* C8: a submit of an empty or whitespace-only text is rejected with the error
\* and leaves thought.csv as it was.
C8_BlankSubmitRejected ==
    [][\A emotion \in EmotionSet, t \in Texts :
          (Blank(t) /\ Submit(emotion, t)) =>
              (thought_csv' = thought_csv /\ last'.outcome = "rejected")]_vars

\* A submit was rejected with thoughts already in the file.
C8_Witness ==
    /\ last.outcome = "rejected"
    /\ pc = "report_tab"
    /\ thought_csv # <<>>

\* C9 as stated: after a run is interrupted, REPORTS_FILE holds the reports of
\* the months the run went through before the interruption.
C9_InterruptedRunPersistsProcessed ==
    last.outcome = "interrupted" =>
        \A i \in 1..Len(last.reports_df) :
            RowsFor(reports_csv, last.reports_df[i].month, last.reports_df[i].year) # <<>>

\* C9 as amended: after a run is interrupted, REPORTS_FILE is as the run found
\* it: no report the run produced is in it.
C9_InterruptedRunLeavesFile ==
    last.outcome = "interrupted" =>
        /\ reports_csv = last.before
        /\ \A i \in 1..Len(last.reports_df) :
              LET r == last.reports_df[i]
              IN RowsFor(last.before, r.month, r.year) = <<>>
                    => RowsFor(reports_csv, r.month, r.year) = <<>>

\* A run interrupted after it had produced a report.
C9_Witness ==
    /\ last.outcome = "interrupted"
    /\ Len(last.reports_df) > Len(last.before.rows)

\* C10: every report in REPORTS_FILE counts the thoughts thought.csv now holds
\* for its month, and its three emotion counts add up to that total.
C10_CachedStatsNotStale ==
    \A i \in 1..Len(reports_csv.rows) :
        LET r == reports_csv.rows[i]
        IN /\ r.total_thoughts = Cardinality(EntriesIn(r.month, r.year))
           /\ r.happy_count + r.sad_count + r.angry_count = r.total_thoughts

\* A cached month of two thoughts, with a thought added in a later month.
C10_Witness ==
    /\ \E i \in 1..Len(reports_csv.rows) : reports_csv.rows[i].total_thoughts = 2
    /\ Len(thought_csv) = 3
    /\ last.outcome = "rerun"

====
